---- MODULE Spec2Model ----
(***************************************************************************)
(* A model of scripts/rule_test_runner.py: the RuleTestRunner, its checks, *)
(* generate_report and main, run against a project tree.                   *)
(*                                                                         *)
(* Text is modelled as what it is: a file name, a glob pattern, a file's   *)
(* content and a line are sequences of one-character strings, so that      *)
(* fnmatch, str.lower, str.split, the "in" operator and the regular        *)
(* expressions are computed on characters as Python computes them.         *)
(***************************************************************************)
EXTENDS Integers, Sequences, FiniteSets, TLC

VARIABLES project_root, pc, next, results, calls, violations, report,
          exit_code, runs, prev_report, output_file, written, stdout

vars == <<project_root, pc, next, results, calls, violations, report,
          exit_code, runs, prev_report, output_file, written, stdout>>

(***************************************************************************)
(* Bounds of the model.                                                    *)
(***************************************************************************)
\* How many entries the initial project tree may differ by from one of the
\* two base trees (the empty project, the compliant project).
MaxEdits == 2

\* How many times the tool is invoked on the same unmodified tree.
MaxRuns == 2

(***************************************************************************)
(* The path names, glob patterns and keywords the source spells out.       *)
(***************************************************************************)
s_Dockerfile ==
    <<"D","o","c","k","e","r","f","i","l","e">>
s_docker ==
    <<"d","o","c","k","e","r">>
s_build ==
    <<"b","u","i","l","d">>
s_openapi_yaml ==
    <<"o","p","e","n","a","p","i",".","y","a","m","l">>
s_openapi_yml ==
    <<"o","p","e","n","a","p","i",".","y","m","l">>
s_swagger_yaml ==
    <<"s","w","a","g","g","e","r",".","y","a","m","l">>
s_perf_budget_yaml ==
    <<"p","e","r","f","-","b","u","d","g","e","t",".","y","a","m","l">>
s_docs ==
    <<"d","o","c","s">>
s_adr ==
    <<"a","d","r">>
s_tests ==
    <<"t","e","s","t","s">>
s_test ==
    <<"t","e","s","t">>
s___tests__ ==
    <<"_","_","t","e","s","t","s","_","_">>
s_spec ==
    <<"s","p","e","c">>
s_jest_config_js ==
    <<"j","e","s","t",".","c","o","n","f","i","g",".","j","s">>
s_jest_config_json ==
    <<"j","e","s","t",".","c","o","n","f","i","g",".","j","s","o","n">>
s_pytest_ini ==
    <<"p","y","t","e","s","t",".","i","n","i">>
s_test_config_js ==
    <<"t","e","s","t",".","c","o","n","f","i","g",".","j","s">>
s_vitest_config_js ==
    <<"v","i","t","e","s","t",".","c","o","n","f","i","g",".","j","s">>
s_github ==
    <<".","g","i","t","h","u","b">>
s_workflows ==
    <<"w","o","r","k","f","l","o","w","s">>
s_gitlab_ci_yml ==
    <<".","g","i","t","l","a","b","-","c","i",".","y","m","l">>
s_travis_yml ==
    <<".","t","r","a","v","i","s",".","y","m","l">>
s_azure_pipelines_yml ==
    <<"a","z","u","r","e","-","p","i","p","e","l","i","n","e","s",".","y","m","l">>
s_Jenkinsfile ==
    <<"J","e","n","k","i","n","s","f","i","l","e">>
s_circleci ==
    <<".","c","i","r","c","l","e","c","i">>
s_config_yml ==
    <<"c","o","n","f","i","g",".","y","m","l">>
s_logging_yaml ==
    <<"l","o","g","g","i","n","g",".","y","a","m","l">>
s_logging_yml ==
    <<"l","o","g","g","i","n","g",".","y","m","l">>
s_log4j_properties ==
    <<"l","o","g","4","j",".","p","r","o","p","e","r","t","i","e","s">>
s_logback_xml ==
    <<"l","o","g","b","a","c","k",".","x","m","l">>
s_winston_config_js ==
    <<"w","i","n","s","t","o","n",".","c","o","n","f","i","g",".","j","s">>
g_yaml ==
    <<"*",".","y","a","m","l">>
g_yml ==
    <<"*",".","y","m","l">>
g_json ==
    <<"*",".","j","s","o","n">>
g_py ==
    <<"*",".","p","y">>
g_js ==
    <<"*",".","j","s">>
g_ts ==
    <<"*",".","t","s">>
g_go ==
    <<"*",".","g","o">>
g_java ==
    <<"*",".","j","a","v","a">>
g_env ==
    <<"*",".","e","n","v","*">>
k_health ==
    <<"/","h","e","a","l","t","h">>
k_healthz ==
    <<"/","h","e","a","l","t","h","z">>
k_ready ==
    <<"/","r","e","a","d","y">>
k_USER ==
    <<"U","S","E","R"," ">>
k_HEALTHCHECK ==
    <<"H","E","A","L","T","H","C","H","E","C","K">>
k_test ==
    <<"t","e","s","t">>
k_build ==
    <<"b","u","i","l","d">>
k_security ==
    <<"s","e","c","u","r","i","t","y">>
k_auth ==
    <<"a","u","t","h">>
k_jwt ==
    <<"j","w","t">>
k_oauth ==
    <<"o","a","u","t","h">>
k_saml ==
    <<"s","a","m","l">>
k_ldap ==
    <<"l","d","a","p">>
k_password ==
    <<"p","a","s","s","w","o","r","d">>
k_api_key ==
    <<"a","p","i","_","k","e","y">>
k_secret ==
    <<"s","e","c","r","e","t">>
k_token ==
    <<"t","o","k","e","n">>

(***************************************************************************)
(* Text: str.lower, the "in" operator, str.split, fnmatch and the regular  *)
(* expressions of the checks.                                              *)
(***************************************************************************)
Last(s) == s[Len(s)]

IsPrefix(p, s) == Len(p) <= Len(s) /\ SubSeq(s, 1, Len(p)) = p

LowerChar(c) ==
    CASE c = "A" -> "a" [] c = "B" -> "b" [] c = "C" -> "c" [] c = "D" -> "d"
      [] c = "E" -> "e" [] c = "F" -> "f" [] c = "G" -> "g" [] c = "H" -> "h"
      [] c = "I" -> "i" [] c = "J" -> "j" [] c = "K" -> "k" [] c = "L" -> "l"
      [] c = "M" -> "m" [] c = "N" -> "n" [] c = "O" -> "o" [] c = "P" -> "p"
      [] c = "Q" -> "q" [] c = "R" -> "r" [] c = "S" -> "s" [] c = "T" -> "t"
      [] c = "U" -> "u" [] c = "V" -> "v" [] c = "W" -> "w" [] c = "X" -> "x"
      [] c = "Y" -> "y" [] c = "Z" -> "z" [] OTHER -> c

\* content.lower()
Lower(s) == [i \in 1..Len(s) |-> LowerChar(s[i])]

\* pat in s
Contains(s, pat) ==
    \E i \in 1..(Len(s) - Len(pat) + 1) : SubSeq(s, i, i + Len(pat) - 1) = pat

\* content.split('\n')
RECURSIVE split(_)
split(s) ==
    IF \A i \in 1..Len(s) : s[i] # "\n"
    THEN <<s>>
    ELSE LET i == CHOOSE k \in 1..Len(s) :
                      /\ s[k] = "\n"
                      /\ \A j \in 1..(k - 1) : s[j] # "\n"
         IN  <<SubSeq(s, 1, i - 1)>> \o split(SubSeq(s, i + 1, Len(s)))

\* fnmatch of one path component against a glob pattern: "*" stands for any
\* run of characters, every other character for itself.
RECURSIVE fnmatch(_, _)
fnmatch(name, pat) ==
    IF pat = <<>> THEN name = <<>>
    ELSE IF Head(pat) = "*"
         THEN \E k \in 0..Len(name) :
                  fnmatch(SubSeq(name, k + 1, Len(name)), Tail(pat))
         ELSE /\ name # <<>>
              /\ Head(name) = Head(pat)
              /\ fnmatch(Tail(name), Tail(pat))

IsDigit(c) == c \in {"0", "1", "2", "3", "4", "5", "6", "7", "8", "9"}

\* \s of a Python str pattern
IsSpace(c) == c \in {" ", "\t", "\n", "\r", "\f"}

IsQuote(c) == c \in {"\"", "'"}

\* re.search(r'/v\d+/', content)
re_search_versioned(content) ==
    \E i \in 1..Len(content) : \E j \in (i + 3)..Len(content) :
        /\ content[i] = "/"
        /\ content[i + 1] = "v"
        /\ \A k \in (i + 2)..(j - 1) : IsDigit(content[k])
        /\ content[j] = "/"

\* re.search(keyword + r'\s*=\s*["\'][^"\']+["\']', line, re.IGNORECASE)
re_search_secret(keyword, line) ==
    \E i \in 1..Len(line) :
        /\ i + Len(keyword) - 1 <= Len(line)
        /\ Lower(SubSeq(line, i, i + Len(keyword) - 1)) = keyword
        /\ \E e \in (i + Len(keyword))..Len(line) :
              /\ \A k \in (i + Len(keyword))..(e - 1) : IsSpace(line[k])
              /\ line[e] = "="
              /\ \E q \in (e + 1)..Len(line) :
                    /\ \A k \in (e + 1)..(q - 1) : IsSpace(line[k])
                    /\ IsQuote(line[q])
                    /\ \E r \in (q + 2)..Len(line) :
                          /\ \A k \in (q + 1)..(r - 1) : ~IsQuote(line[k])
                          /\ IsQuote(line[r])

(***************************************************************************)
(* The project tree.  project_root is the set of its entries; an entry is  *)
(* a file or a directory at a path (the sequence of its components below   *)
(* the root).  The directories above an entry exist with it.  A file is    *)
(* readable or not (permission, encoding); reading a directory fails.      *)
(***************************************************************************)
File(path, content) ==
    [path |-> path, kind |-> "file", readable |-> TRUE, content |-> content]

Unreadable(path) ==
    [path |-> path, kind |-> "file", readable |-> FALSE, content |-> <<>>]

Dir(path) ==
    [path |-> path, kind |-> "dir", readable |-> TRUE, content |-> <<>>]

\* Every path of the tree: the entries and the directories above them.
Nodes(root) ==
    UNION {{SubSeq(e.path, 1, k) : k \in 1..Len(e.path)} : e \in root}

\* Path.exists()
exists(root, path) == path \in Nodes(root)

\* Path.is_dir()
is_dir(root, path) ==
    \E e \in root :
        /\ IsPrefix(path, e.path)
        /\ (e.path = path => e.kind = "dir")

\* Whether Path.read_text() returns (a regular file that can be opened and
\* decoded) rather than raises.
can_read(root, path) ==
    \E e \in root : e.path = path /\ e.kind = "file" /\ e.readable

\* Path.read_text()
read_text(root, path) ==
    (CHOOSE e \in root : e.path = path).content

\* The paths Path.rglob(pattern) yields: every path below the root, at any
\* depth, whose last component matches.  rglob("**/" + p) yields the paths
\* of rglob(p).
rglob(root, pattern) ==
    {p \in Nodes(root) : fnmatch(Last(p), pattern)}

\* The paths directory.glob(pattern) yields: the paths directly inside.
glob(root, directory, pattern) ==
    {p \in Nodes(root) :
        /\ Len(p) = Len(directory) + 1
        /\ IsPrefix(directory, p)
        /\ fnmatch(Last(p), pattern)}

\* The orders in which the file system may enumerate a set of paths: the
\* source sorts nothing, and neither pathlib nor the operating system
\* promises an order.
Listings(S) ==
    {s \in [1..Cardinality(S) -> S] :
        \A i, j \in 1..Cardinality(S) : i # j => s[i] # s[j]}

\* list(rglob(p1)) + list(rglob(p2)) + ...: one listing per pattern, in the
\* order of the patterns.
RECURSIVE rglob_lists(_, _)
rglob_lists(root, patterns) ==
    IF patterns = <<>> THEN {<<>>}
    ELSE {a \o b : a \in Listings(rglob(root, Head(patterns))),
                   b \in rglob_lists(root, Tail(patterns))}

RECURSIVE glob_lists(_, _, _)
glob_lists(root, directory, patterns) ==
    IF patterns = <<>> THEN {<<>>}
    ELSE {a \o b : a \in Listings(glob(root, directory, Head(patterns))),
                   b \in glob_lists(root, directory, Tail(patterns))}

(***************************************************************************)
(* The data model: Severity, RuleViolation, RuleTestResult.                *)
(***************************************************************************)
Severity == {"MUST", "SHOULD", "MAY"}

\* file_path = None
NoPath == <<>>

\* line_number = None
NoLine == 0

\* A description is its fixed text and the text formatted into it.
RuleViolation(rule_id, severity, text, formatted, file_path, line_number, suggestion) ==
    [rule_id |-> rule_id, severity |-> severity,
     description |-> [text |-> text, formatted |-> formatted],
     file_path |-> file_path, line_number |-> line_number,
     suggestion |-> suggestion]

\* details is the rule's label and the violation count formatted into it.
RuleTestResult(rule_id, passed, vs, label) ==
    [rule_id |-> rule_id, passed |-> passed, violations |-> vs,
     details |-> [label |-> label, count |-> Len(vs)]]

\* [v for v in violations if v.severity == Severity.MUST]
must_only(vs) == SelectSeq(vs, LAMBDA v : v.severity = "MUST")

RECURSIVE flatten(_)
flatten(ss) == IF ss = <<>> THEN <<>> ELSE Head(ss) \o flatten(Tail(ss))

\* sep.join(parts)
RECURSIVE join(_, _)
join(sep, parts) ==
    IF parts = <<>> THEN <<>>
    ELSE IF Len(parts) = 1 THEN Head(parts)
    ELSE Head(parts) \o sep \o join(sep, Tail(parts))

(***************************************************************************)
(* Rule 01A: design principles.                                            *)
(***************************************************************************)
test_01a_design_principles(root) ==
    LET openapi_files ==
            rglob(root, s_openapi_yaml) \cup rglob(root, s_openapi_yml)
                \cup rglob(root, s_swagger_yaml)
        perf_budget == <<s_perf_budget_yaml>>
        adr_dir == <<s_docs, s_adr>>
        vs ==
            (IF openapi_files = {}
             THEN <<RuleViolation("01A-001", "MUST",
                        "Missing OpenAPI specification file", <<>>, NoPath,
                        NoLine,
                        "Create docs/openapi.yaml with API specification")>>
             ELSE <<>>)
            \o
            (IF ~exists(root, perf_budget)
             THEN <<RuleViolation("01A-002", "MUST",
                        "Missing performance budget configuration", <<>>,
                        perf_budget, NoLine,
                        "Create perf-budget.yaml with SLO targets")>>
             ELSE <<>>)
            \o
            (IF ~exists(root, adr_dir)
             THEN <<RuleViolation("01A-003", "MUST",
                        "Missing Architecture Decision Records directory",
                        <<>>, adr_dir, NoLine,
                        "Create docs/adr/ directory with CAP theorem analysis")>>
             ELSE <<>>)
    IN  "01A" :> RuleTestResult("01A", Len(vs) = 0, vs,
                                "Design principles compliance")

(***************************************************************************)
(* Rule 01B: runtime operations.  files is the enumeration of the six      *)
(* globs; the scan stops at the first readable file holding a pattern and  *)
(* passes over a file whose read raises.                                   *)
(***************************************************************************)
health_patterns == {k_health, k_healthz, k_ready}

patterns_01b == <<g_yaml, g_yml, g_json, g_py, g_js, g_ts>>

RECURSIVE found_health(_, _)
found_health(root, files) ==
    IF files = <<>> THEN FALSE
    ELSE IF /\ can_read(root, Head(files))
            /\ \E hp \in health_patterns :
                   Contains(read_text(root, Head(files)), hp)
         THEN TRUE
         ELSE found_health(root, Tail(files))

\* A variant with the test of found_health inverted.
test_01b_inverted(root, files) ==
    LET vs ==
            IF found_health(root, files)
            THEN <<RuleViolation("01B-001", "MUST",
                       "No health check endpoints found", <<>>, NoPath, NoLine,
                       "Implement /health and /ready endpoints")>>
            ELSE <<>>
    IN  "01B" :> RuleTestResult("01B", Len(vs) = 0, vs,
                                "Runtime operations compliance")

test_01b_runtime_operations(root, files) ==
    LET vs ==
            IF ~found_health(root, files)
            THEN <<RuleViolation("01B-001", "MUST",
                       "No health check endpoints found", <<>>, NoPath, NoLine,
                       "Implement /health and /ready endpoints")>>
            ELSE <<>>
    IN  "01B" :> RuleTestResult("01B", Len(vs) = 0, vs,
                                "Runtime operations compliance")

(***************************************************************************)
(* Rule 02A: container design.  Only the first existing candidate is read, *)
(* and its read is not guarded: when it raises, so does the check.         *)
(***************************************************************************)
dockerfile_paths ==
    <<(<<s_Dockerfile>>), <<s_docker, s_Dockerfile>>,
      <<s_build, s_Dockerfile>>>>

dockerfile_exists(root) ==
    \E i \in 1..Len(dockerfile_paths) : exists(root, dockerfile_paths[i])

\* The body of "if dockerfile_path.exists():" up to its break.
dockerfile_violations(root, dockerfile_path) ==
    LET content == read_text(root, dockerfile_path)
    IN  (IF ~Contains(content, k_USER)
         THEN <<RuleViolation("02A-002", "MUST",
                    "Dockerfile missing non-root USER directive", <<>>,
                    dockerfile_path, NoLine,
                    "Add USER directive to run as non-root")>>
         ELSE <<>>)
        \o
        (IF ~Contains(content, k_HEALTHCHECK)
         THEN <<RuleViolation("02A-003", "SHOULD",
                    "Dockerfile missing HEALTHCHECK directive", <<>>,
                    dockerfile_path, NoLine,
                    "Add HEALTHCHECK for container health monitoring")>>
         ELSE <<>>)

\* for dockerfile_path in dockerfile_paths: if it exists: ...; break
RECURSIVE dockerfile_loop(_, _)
dockerfile_loop(root, paths) ==
    IF paths = <<>> THEN <<>>
    ELSE IF exists(root, Head(paths))
         THEN dockerfile_violations(root, Head(paths))
         ELSE dockerfile_loop(root, Tail(paths))

\* The same loop: whether the read_text() it reaches raises.
RECURSIVE dockerfile_loop_raises(_, _)
dockerfile_loop_raises(root, paths) ==
    IF paths = <<>> THEN FALSE
    ELSE IF exists(root, Head(paths))
         THEN ~can_read(root, Head(paths))
         ELSE dockerfile_loop_raises(root, Tail(paths))

test_02a_raises(root) ==
    dockerfile_exists(root) /\ dockerfile_loop_raises(root, dockerfile_paths)

test_02a_container_design(root) ==
    LET vs ==
            IF ~dockerfile_exists(root)
            THEN <<RuleViolation("02A-001", "MUST", "Missing Dockerfile",
                       <<>>, NoPath, NoLine,
                       "Create Dockerfile with multi-stage build")>>
            ELSE dockerfile_loop(root, dockerfile_paths)
    IN  "02A" :> RuleTestResult("02A", Len(must_only(vs)) = 0, vs,
                                "Container design compliance")

(***************************************************************************)
(* Rule 06A: API design.  Stops at the first readable file matching.       *)
(***************************************************************************)
patterns_06a == <<g_py, g_js, g_ts, g_go, g_java>>

\* A variant whose scan ends at the first file whose read raises.
RECURSIVE versioned_endpoints_until_unreadable(_, _)
versioned_endpoints_until_unreadable(root, api_files) ==
    IF api_files = <<>> THEN FALSE
    ELSE IF ~can_read(root, Head(api_files)) THEN FALSE
    ELSE IF re_search_versioned(read_text(root, Head(api_files))) THEN TRUE
    ELSE versioned_endpoints_until_unreadable(root, Tail(api_files))

RECURSIVE versioned_endpoints_found(_, _)
versioned_endpoints_found(root, api_files) ==
    IF api_files = <<>> THEN FALSE
    ELSE IF /\ can_read(root, Head(api_files))
            /\ re_search_versioned(read_text(root, Head(api_files)))
         THEN TRUE
         ELSE versioned_endpoints_found(root, Tail(api_files))

test_06a_api_design(root, api_files) ==
    LET vs ==
            IF ~versioned_endpoints_found(root, api_files)
            THEN <<RuleViolation("06A-001", "MUST",
                       "No versioned API endpoints found", <<>>, NoPath,
                       NoLine,
                       "Implement versioned endpoints (e.g., /v1/users, /v2/orders)")>>
            ELSE <<>>
    IN  "06A" :> RuleTestResult("06A", Len(vs) = 0, vs,
                                "API design compliance")

(***************************************************************************)
(* Rule 07A: testing strategy.                                             *)
(***************************************************************************)
test_dirs == {<<s_tests>>, <<s_test>>, <<s___tests__>>, <<s_spec>>}

test_configs ==
    {<<s_jest_config_js>>, <<s_jest_config_json>>, <<s_pytest_ini>>,
     <<s_test_config_js>>, <<s_vitest_config_js>>}

test_07a_testing_strategy(root) ==
    LET test_dir_exists ==
            \E path \in test_dirs : exists(root, path) /\ is_dir(root, path)
        config_exists == \E config \in test_configs : exists(root, config)
        vs ==
            (IF ~test_dir_exists
             THEN <<RuleViolation("07A-001", "MUST", "No test directory found",
                        <<>>, NoPath, NoLine,
                        "Create tests/ directory with unit, integration, and e2e tests")>>
             ELSE <<>>)
            \o
            (IF ~config_exists
             THEN <<RuleViolation("07A-002", "MUST",
                        "No test configuration found", <<>>, NoPath, NoLine,
                        "Create test configuration file (jest.config.js, pytest.ini, etc.)")>>
             ELSE <<>>)
    IN  "07A" :> RuleTestResult("07A", Len(vs) = 0, vs,
                                "Testing strategy compliance")

(***************************************************************************)
(* The file names and contents the project trees are built from.           *)
(***************************************************************************)
s_app_py ==
    <<"a","p","p",".","p","y">>
s_a_py ==
    <<"a",".","p","y">>
s_b_py ==
    <<"b",".","p","y">>
s_c_js ==
    <<"c",".","j","s">>
s_ci_yml ==
    <<"c","i",".","y","m","l">>
s_rel_yaml ==
    <<"r","e","l",".","y","a","m","l">>
s_bad_yml ==
    <<"b","a","d",".","y","m","l">>
s_sub ==
    <<"s","u","b">>
s_deep_yml ==
    <<"d","e","e","p",".","y","m","l">>
s_report_md ==
    <<"r","e","p","o","r","t",".","m","d">>
s_d_ts ==
    <<"d",".","t","s">>
s_env ==
    <<".","e","n","v">>
c_openapi ==
    <<"p","a","t","h","s",":"," ","/","h","e","a","l","t","h">>
c_perf ==
    <<"p","9","9",":"," ","1">>
c_dockerfile_good ==
    <<"U","S","E","R"," ","u","\n","H","E","A","L","T","H","C","H","E","C","K"," ","c">>
c_dockerfile_bare ==
    <<"F","R","O","M"," ","a">>
c_dockerfile_user ==
    <<"U","S","E","R"," ","u">>
c_app ==
    <<"g","e","t","(","'","/","v","1","/","x","'",")">>
c_pytest ==
    <<"[","p","y","t","e","s","t","]">>
c_ci_full ==
    <<"T","e","s","t"," ","B","U","I","L","D"," ","s","e","c","u","r","i","t","y">>
c_ci_partial ==
    <<"t","e","s","t"," ","b","u","i","l","d">>
c_rel ==
    <<"b","u","i","l","d">>
c_deep ==
    <<"x">>
c_gitlab ==
    <<"t","e","s","t">>
c_logging ==
    <<"l","e","v","e","l",":"," ","1">>
c_env ==
    <<"J","W","T","=","1">>
c_api ==
    <<"p","o","s","t","(","'","/","v","2","/","a","u","t","h","/","r","e","a","d","y","'",")">>
c_secret_a ==
    <<"p","a","s","s","w","o","r","d"," ","="," ","'","'","\n","p","a","s","s","w","o","r","d"," ","="," ","'","x","'">>
c_secret_b ==
    <<"T","o","k","e","n","=","\"","t","\"",";"," ","s","e","c","r","e","t"," ","="," ","'","y","'">>

(***************************************************************************)
(* Rule 09A: CI/CD pipelines.  workflow_files is the enumeration of the    *)
(* two globs of .github/workflows; each file's read is not guarded: when   *)
(* one raises, so does the check.                                          *)
(***************************************************************************)
cicd_files ==
    {<<s_github, s_workflows>>, <<s_gitlab_ci_yml>>, <<s_travis_yml>>,
     <<s_azure_pipelines_yml>>, <<s_Jenkinsfile>>,
     <<s_circleci, s_config_yml>>}

gh_workflows == <<s_github, s_workflows>>

patterns_09a == <<g_yml, g_yaml>>

required_stages == <<k_test, k_build, k_security>>

\* [stage for stage in required_stages if stage not in content.lower()]
missing_stages(content) ==
    SelectSeq(required_stages, LAMBDA stage : ~Contains(Lower(content), stage))

\* The body of "for workflow_file in workflow_files:".
workflow_violations(root, workflow_file) ==
    LET missing == missing_stages(read_text(root, workflow_file))
    IN  IF missing # <<>>
        THEN <<RuleViolation("09A-002", "SHOULD", "Workflow missing stages: ",
                   join(<<",", " ">>, missing), workflow_file, NoLine,
                   "Add test, build, and security stages to pipeline")>>
        ELSE <<>>

test_09a_raises(root, workflow_files) ==
    /\ exists(root, gh_workflows)
    /\ \E i \in 1..Len(workflow_files) : ~can_read(root, workflow_files[i])

test_09a_cicd_pipelines(root, workflow_files) ==
    LET cicd_exists == \E config \in cicd_files : exists(root, config)
        vs ==
            (IF ~cicd_exists
             THEN <<RuleViolation("09A-001", "MUST",
                        "No CI/CD pipeline configuration found", <<>>, NoPath,
                        NoLine,
                        "Create .github/workflows/ci-cd.yml or equivalent pipeline")>>
             ELSE <<>>)
            \o
            (IF exists(root, gh_workflows)
             THEN flatten([i \in 1..Len(workflow_files) |->
                              workflow_violations(root, workflow_files[i])])
             ELSE <<>>)
    IN  "09A" :> RuleTestResult("09A", Len(must_only(vs)) = 0, vs,
                                "CI/CD pipeline compliance")

(***************************************************************************)
(* Rule 03A: authentication.  Stops at the first readable file holding a   *)
(* keyword.                                                                *)
(***************************************************************************)
auth_patterns == {k_auth, k_jwt, k_oauth, k_saml, k_ldap}

\* A variant whose scan also takes in the source files.
patterns_03a_with_sources == <<g_yaml, g_yml, g_json, g_py, g_js, g_ts, g_env>>

patterns_03a == <<g_yaml, g_yml, g_json, g_env>>

RECURSIVE auth_files_found(_, _)
auth_files_found(root, files) ==
    IF files = <<>> THEN FALSE
    ELSE IF /\ can_read(root, Head(files))
            /\ \E auth_pattern \in auth_patterns :
                   Contains(Lower(read_text(root, Head(files))), auth_pattern)
         THEN TRUE
         ELSE auth_files_found(root, Tail(files))

test_03a_authentication(root, files) ==
    LET vs ==
            IF ~auth_files_found(root, files)
            THEN <<RuleViolation("03A-001", "SHOULD",
                       "No authentication configuration found", <<>>, NoPath,
                       NoLine,
                       "Configure authentication system (JWT, OAuth2, etc.)")>>
            ELSE <<>>
    IN  "03A" :> RuleTestResult("03A", Len(must_only(vs)) = 0, vs,
                                "Authentication compliance")

(***************************************************************************)
(* Rule 05B: secrets management.  Every line of every readable file is     *)
(* tried against every pattern, and every match appends a violation.       *)
(***************************************************************************)
secret_patterns == <<k_password, k_api_key, k_secret, k_token>>

patterns_05b == <<g_py, g_js, g_ts, g_java, g_go>>

\* The body of "for pattern in secret_patterns:".
pattern_violations(file_path, i, line, pattern) ==
    IF re_search_secret(pattern, line)
    THEN <<RuleViolation("05B-001", "MUST",
               "Potential hardcoded secret found", <<>>, file_path, i,
               "Move secrets to environment variables or secret management system")>>
    ELSE <<>>

\* A variant that leaves the pattern loop at the first match of a line.
line_violations_first_match(file_path, i, line) ==
    LET hits == flatten([p \in 1..Len(secret_patterns) |->
                            pattern_violations(file_path, i, line,
                                               secret_patterns[p])])
    IN  IF hits = <<>> THEN <<>> ELSE <<Head(hits)>>

\* The body of "for i, line in enumerate(content.split('\n'), 1):".
line_violations(file_path, i, line) ==
    flatten([p \in 1..Len(secret_patterns) |->
                pattern_violations(file_path, i, line, secret_patterns[p])])

\* The body of "for file_path in code_files:", its try and except.
file_violations(root, file_path) ==
    IF can_read(root, file_path)
    THEN LET lines == split(read_text(root, file_path))
         IN  flatten([i \in 1..Len(lines) |->
                         line_violations(file_path, i, lines[i])])
    ELSE <<>>

test_05b_secrets_management(root, code_files) ==
    LET vs == flatten([f \in 1..Len(code_files) |->
                          file_violations(root, code_files[f])])
    IN  "05B" :> RuleTestResult("05B", Len(vs) = 0, vs,
                                "Secrets management compliance")

(***************************************************************************)
(* Rule 08B: logging standards.                                            *)
(***************************************************************************)
logging_configs ==
    {<<s_logging_yaml>>, <<s_logging_yml>>, <<s_log4j_properties>>,
     <<s_logback_xml>>, <<s_winston_config_js>>}

\* A variant under the other policy: passed = no violation of any severity.
test_08b_any_severity_fails(root) ==
    LET config_exists == \E config \in logging_configs : exists(root, config)
        vs ==
            IF ~config_exists
            THEN <<RuleViolation("08B-001", "SHOULD",
                       "No logging configuration found", <<>>, NoPath, NoLine,
                       "Create logging configuration with structured format")>>
            ELSE <<>>
    IN  "08B" :> RuleTestResult("08B", Len(vs) = 0, vs,
                                "Logging standards compliance")

test_08b_logging_standards(root) ==
    LET config_exists == \E config \in logging_configs : exists(root, config)
        vs ==
            IF ~config_exists
            THEN <<RuleViolation("08B-001", "SHOULD",
                       "No logging configuration found", <<>>, NoPath, NoLine,
                       "Create logging configuration with structured format")>>
            ELSE <<>>
    IN  "08B" :> RuleTestResult("08B", Len(must_only(vs)) = 0, vs,
                                "Logging standards compliance")

(***************************************************************************)
(* The placeholder checks.                                                 *)
(***************************************************************************)
test_01c_governance ==
    "01C" :> RuleTestResult("01C", TRUE, <<>>,
                            "Governance principles compliance")

test_02b_network_topology ==
    "02B" :> RuleTestResult("02B", TRUE, <<>>, "Network topology compliance")

test_02c_service_metadata ==
    "02C" :> RuleTestResult("02C", TRUE, <<>>, "Service metadata compliance")

test_03b_authorization ==
    "03B" :> RuleTestResult("03B", TRUE, <<>>, "Authorization compliance")

test_03c_security_encryption ==
    "03C" :> RuleTestResult("03C", TRUE, <<>>,
                            "Security encryption compliance")

test_04a_database_design ==
    "04A" :> RuleTestResult("04A", TRUE, <<>>, "Database design compliance")

test_04b_database_operations ==
    "04B" :> RuleTestResult("04B", TRUE, <<>>,
                            "Database operations compliance")

test_05a_environment_config ==
    "05A" :> RuleTestResult("05A", TRUE, <<>>, "Environment config compliance")

test_06b_api_documentation ==
    "06B" :> RuleTestResult("06B", TRUE, <<>>, "API documentation compliance")

test_06c_api_versioning ==
    "06C" :> RuleTestResult("06C", TRUE, <<>>, "API versioning compliance")

test_07b_test_implementation ==
    "07B" :> RuleTestResult("07B", TRUE, <<>>,
                            "Test implementation compliance")

test_07c_test_automation ==
    "07C" :> RuleTestResult("07C", TRUE, <<>>, "Test automation compliance")

test_08a_error_handling ==
    "08A" :> RuleTestResult("08A", TRUE, <<>>, "Error handling compliance")

test_08c_monitoring ==
    "08C" :> RuleTestResult("08C", TRUE, <<>>, "Monitoring compliance")

(***************************************************************************)
(* run_all_tests: the registry is the sequence of its calls.               *)
(***************************************************************************)
\* A variant of the registry whose last placeholder was never registered.
Registry_without_08c ==
    <<"test_01a_design_principles", "test_01b_runtime_operations",
      "test_01c_governance", "test_02a_container_design",
      "test_02b_network_topology", "test_02c_service_metadata",
      "test_03a_authentication", "test_03b_authorization",
      "test_03c_security_encryption", "test_04a_database_design",
      "test_04b_database_operations", "test_05a_environment_config",
      "test_05b_secrets_management", "test_06a_api_design",
      "test_06b_api_documentation", "test_06c_api_versioning",
      "test_07a_testing_strategy", "test_07b_test_implementation",
      "test_07c_test_automation", "test_08a_error_handling",
      "test_08b_logging_standards", "test_09a_cicd_pipelines">>

Registry ==
    <<"test_01a_design_principles", "test_01b_runtime_operations",
      "test_01c_governance", "test_02a_container_design",
      "test_02b_network_topology", "test_02c_service_metadata",
      "test_03a_authentication", "test_03b_authorization",
      "test_03c_security_encryption", "test_04a_database_design",
      "test_04b_database_operations", "test_05a_environment_config",
      "test_05b_secrets_management", "test_06a_api_design",
      "test_06b_api_documentation", "test_06c_api_versioning",
      "test_07a_testing_strategy", "test_07b_test_implementation",
      "test_07c_test_automation", "test_08a_error_handling",
      "test_08b_logging_standards", "test_08c_monitoring",
      "test_09a_cicd_pipelines">>

Methods == {Registry[i] : i \in 1..Len(Registry)}

\* The enumerations of files the globs of a check may hand it.
enumerations(method, root) ==
    CASE method = "test_01b_runtime_operations" ->
             rglob_lists(root, patterns_01b)
      [] method = "test_03a_authentication" -> rglob_lists(root, patterns_03a)
      [] method = "test_05b_secrets_management" ->
             rglob_lists(root, patterns_05b)
      [] method = "test_06a_api_design" -> rglob_lists(root, patterns_06a)
      [] method = "test_09a_cicd_pipelines" ->
             glob_lists(root, gh_workflows, patterns_09a)
      [] OTHER -> {<<>>}

\* Whether the call raises instead of returning.
raises(method, root, files) ==
    CASE method = "test_02a_container_design" -> test_02a_raises(root)
      [] method = "test_09a_cicd_pipelines" -> test_09a_raises(root, files)
      [] OTHER -> FALSE

\* What the call returns: a mapping of one rule identifier to its result.
invoke(method, root, files) ==
    CASE method = "test_01a_design_principles" ->
             test_01a_design_principles(root)
      [] method = "test_01b_runtime_operations" ->
             test_01b_runtime_operations(root, files)
      [] method = "test_01c_governance" -> test_01c_governance
      [] method = "test_02a_container_design" ->
             test_02a_container_design(root)
      [] method = "test_02b_network_topology" -> test_02b_network_topology
      [] method = "test_02c_service_metadata" -> test_02c_service_metadata
      [] method = "test_03a_authentication" ->
             test_03a_authentication(root, files)
      [] method = "test_03b_authorization" -> test_03b_authorization
      [] method = "test_03c_security_encryption" ->
             test_03c_security_encryption
      [] method = "test_04a_database_design" -> test_04a_database_design
      [] method = "test_04b_database_operations" ->
             test_04b_database_operations
      [] method = "test_05a_environment_config" -> test_05a_environment_config
      [] method = "test_05b_secrets_management" ->
             test_05b_secrets_management(root, files)
      [] method = "test_06a_api_design" -> test_06a_api_design(root, files)
      [] method = "test_06b_api_documentation" -> test_06b_api_documentation
      [] method = "test_06c_api_versioning" -> test_06c_api_versioning
      [] method = "test_07a_testing_strategy" ->
             test_07a_testing_strategy(root)
      [] method = "test_07b_test_implementation" ->
             test_07b_test_implementation
      [] method = "test_07c_test_automation" -> test_07c_test_automation
      [] method = "test_08a_error_handling" -> test_08a_error_handling
      [] method = "test_08b_logging_standards" ->
             test_08b_logging_standards(root)
      [] method = "test_08c_monitoring" -> test_08c_monitoring
      [] method = "test_09a_cicd_pipelines" ->
             test_09a_cicd_pipelines(root, files)

\* results.update(mapping)
update(mapping, other) == other @@ mapping

(***************************************************************************)
(* generate_report.  The report is modelled by the values formatted into   *)
(* its template: the six summary numbers (the score in tenths of a         *)
(* percent), one section per rule in sorted order, the recommendations.    *)
(***************************************************************************)
\* The rule identifiers in the order sorted() gives strings.
sorted_rule_ids ==
    <<"01A", "01B", "01C", "02A", "02B", "02C", "03A", "03B", "03C", "04A",
      "04B", "05A", "05B", "06A", "06B", "06C", "07A", "07B", "07C", "08A",
      "08B", "08C", "09A">>

\* sorted(results.items()), the keys
sorted_keys(rs) == SelectSeq(sorted_rule_ids, LAMBDA k : k \in DOMAIN rs)

\* f"{(passed / total * 100):.1f}", in tenths: the nearest, a tie to even.
format_1f(passed, total) ==
    LET n == passed * 1000
        q == n \div total
        r == n % total
    IN  IF 2 * r < total THEN q
        ELSE IF 2 * r > total THEN q + 1
        ELSE IF q % 2 = 0 THEN q ELSE q + 1

\* The line of one violation.
render_violation(v) ==
    [severity |-> v.severity,
     description |-> v.description,
     file_path |-> v.file_path,
     line_number |-> IF v.file_path # NoPath THEN v.line_number ELSE NoLine,
     suggestion |-> v.suggestion]

\* The block of one rule.
render_section(rule_id, result) ==
    [rule_id |-> rule_id,
     status |-> IF result.passed THEN "PASS" ELSE "FAIL",
     details |-> result.details,
     violations |-> [i \in 1..Len(result.violations) |->
                        render_violation(result.violations[i])]]

\* sum(len([v for v in r.violations if v.severity == Severity.MUST])
\*     for r in results.values())
RECURSIVE sum_must(_, _)
sum_must(rs, keys) ==
    IF keys = {} THEN 0
    ELSE LET k == CHOOSE x \in keys : TRUE
         IN  Len(must_only(rs[k].violations)) + sum_must(rs, keys \ {k})

count_must(rs) == sum_must(rs, DOMAIN rs)

\* sum(len(r.violations) for r in results.values())
RECURSIVE sum_all(_, _)
sum_all(rs, keys) ==
    IF keys = {} THEN 0
    ELSE LET k == CHOOSE x \in keys : TRUE
         IN  Len(rs[k].violations) + sum_all(rs, keys \ {k})

count_all(rs) == sum_all(rs, DOMAIN rs)

generate_report(rs) ==
    LET keys == sorted_keys(rs)
        total_rules == Cardinality(DOMAIN rs)
        passed_rules == Cardinality({k \in DOMAIN rs : rs[k].passed})
        total_violations == count_all(rs)
        must_violations == count_must(rs)
    IN  [total_rules |-> total_rules,
         passed_rules |-> passed_rules,
         failed_rules |-> total_rules - passed_rules,
         total_violations |-> total_violations,
         must_violations |-> must_violations,
         score |-> format_1f(passed_rules, total_rules),
         sections |-> [i \in 1..Len(keys) |->
                          render_section(keys[i], rs[keys[i]])],
         recommendations |->
             (IF must_violations > 0
              THEN <<[message |-> "Critical", count |-> must_violations]>>
              ELSE <<>>)
             \o
             (IF total_violations > must_violations
              THEN <<[message |-> "Important",
                      count |-> total_violations - must_violations]>>
              ELSE <<>>)
             \o
             (IF total_violations = 0
              THEN <<[message |-> "Excellent", count |-> 0]>>
              ELSE <<>>)]

(***************************************************************************)
(* main: its exit status.                                                  *)
(***************************************************************************)
\* A variant that exits 1 on a violation of any severity.
exit_status_any_severity(rs) == IF count_all(rs) > 0 THEN 1 ELSE 0

\* sys.exit(1 if must_violations > 0 else 0)
exit_status(rs) == IF count_must(rs) > 0 THEN 1 ELSE 0

(***************************************************************************)
(* The project trees the runs start from: the empty project or a project   *)
(* that passes every rule, changed by at most MaxEdits entries (an entry   *)
(* of the compliant project removed, one of the further entries added).    *)
(***************************************************************************)
Compliant ==
    {File(<<s_docs, s_openapi_yaml>>, c_openapi),
     File(<<s_perf_budget_yaml>>, c_perf),
     Dir(<<s_docs, s_adr>>),
     File(<<s_Dockerfile>>, c_dockerfile_good),
     File(<<s_app_py>>, c_app),
     Dir(<<s_tests>>),
     File(<<s_pytest_ini>>, c_pytest),
     File(<<s_github, s_workflows, s_ci_yml>>, c_ci_full)}

Additions ==
    {File(<<s_a_py>>, c_secret_a),
     File(<<s_b_py>>, c_secret_b),
     Unreadable(<<s_c_js>>),
     File(<<s_Dockerfile>>, c_dockerfile_bare),
     Unreadable(<<s_Dockerfile>>),
     File(<<s_docker, s_Dockerfile>>, c_dockerfile_bare),
     File(<<s_build, s_Dockerfile>>, c_dockerfile_user),
     File(<<s_github, s_workflows, s_ci_yml>>, c_ci_partial),
     File(<<s_github, s_workflows, s_rel_yaml>>, c_rel),
     Unreadable(<<s_github, s_workflows, s_bad_yml>>),
     File(<<s_github, s_workflows, s_sub, s_deep_yml>>, c_deep),
     File(<<s_gitlab_ci_yml>>, c_gitlab),
     File(<<s_logging_yaml>>, c_logging),
     File(<<s_env>>, c_env),
     File(<<s_d_ts>>, c_api)}

\* The subsets of S of at most k elements.
RECURSIVE SubsetsUpTo(_, _)
SubsetsUpTo(S, k) ==
    IF k = 0 THEN {{}}
    ELSE LET smaller == SubsetsUpTo(S, k - 1)
         IN  smaller \cup {T \cup {x} : T \in smaller, x \in S}

\* A tree holds one entry per path, and nothing below a file.
WellFormed(root) ==
    \A e, f \in root :
        /\ e.path = f.path => e = f
        /\ (e # f /\ IsPrefix(e.path, f.path)) => e.kind = "dir"

Trees ==
    LET edits == SubsetsUpTo(Compliant \cup Additions, MaxEdits)
        trees == {E \cap Additions : E \in edits}
                 \cup {(Compliant \ E) \cup (E \cap Additions) : E \in edits}
    IN  {t \in trees : WellFormed(t)}

(***************************************************************************)
(* main's second argument and what it does with the report.  project_root  *)
(* is the tree as the run found it; written holds what the run has written *)
(* to the file system since.                                               *)
(***************************************************************************)
\* output_file = None: the argument was omitted.
None == [given |-> FALSE, inside |-> FALSE, path |-> <<>>]

\* A path that leads outside the project.
Outside(path) == [given |-> TRUE, inside |-> FALSE, path |-> path]

\* A path that leads into the project, given from its root.
Inside(path) == [given |-> TRUE, inside |-> TRUE, path |-> path]

\* The arguments main is tried with.
OutputFiles ==
    {None,
     Outside(<<s_report_md>>),
     Inside(<<s_report_md>>),
     Inside(<<s_Dockerfile>>),
     Inside(<<s_docs, s_adr>>)}

\* Whether open(output_file, 'w') may raise: the path is a directory, it
\* lies in no directory, or it is a file the process may not open.
open_may_raise(root, file) ==
    /\ file.inside
    /\ \/ is_dir(root, file.path)
       \/ /\ Len(file.path) > 1
          /\ ~is_dir(root, SubSeq(file.path, 1, Len(file.path) - 1))
       \/ \E e \in root : e.path = file.path /\ ~e.readable

\* Whether open(output_file, 'w') may return a file.
open_may_return(root, file) ==
    \/ ~file.inside
    \/ /\ ~is_dir(root, file.path)
       /\ Len(file.path) > 1 =>
              is_dir(root, SubSeq(file.path, 1, Len(file.path) - 1))

\* A variant that opens the file of that name in the project.
write_into_project(files, file, text) ==
    {w \in files : w.file # Inside(file.path)}
        \cup {[file |-> Inside(file.path), text |-> text]}

\* with open(output_file, 'w') as f: f.write(report)
write(files, file, text) ==
    {w \in files : w.file # file} \cup {[file |-> file, text |-> text]}

\* print(...)
print(out, what, file, text) ==
    Append(out, [what |-> what, file |-> file, text |-> text])

NoResults == [k \in {} |-> k]

NoReport == [total_rules |-> 0]

(***************************************************************************)
(* The state machine: main() on project_root.                              *)
(*   pc           where main is                                            *)
(*   next         the position in the registry of the call run_all_tests   *)
(*                makes next                                               *)
(*   results      the mapping run_all_tests builds                         *)
(*   calls        how often each check has been invoked                    *)
(*   violations   the runner's own list, self.violations                   *)
(*   report       what generate_report returned                            *)
(*   exit_code    the status the process ended with (-1: still running)    *)
(*   runs         the invocations of the tool on this tree so far          *)
(*   prev_report  the report of the invocation before this one             *)
(*   output_file  main's second argument, read where main first uses it    *)
(*   written      the files the tool has written, each with its text       *)
(*   stdout       what the run has printed                                 *)
(***************************************************************************)
Start ==
    /\ pc = "run_all_tests"
    /\ next = 1
    /\ results = NoResults
    /\ calls = [m \in Methods |-> 0]
    /\ violations = <<>>
    /\ report = NoReport
    /\ exit_code = -1
    /\ output_file = None
    /\ stdout = <<>>

Init ==
    /\ project_root \in Trees
    /\ Start
    /\ runs = 1
    /\ prev_report = NoReport
    /\ written = {}

\* One call of run_all_tests returns and its mapping is merged.
CheckReturns ==
    /\ pc = "run_all_tests"
    /\ next <= Len(Registry)
    /\ \E files \in enumerations(Registry[next], project_root) :
          /\ ~raises(Registry[next], project_root, files)
          /\ results' = update(results,
                               invoke(Registry[next], project_root, files))
    /\ calls' = [calls EXCEPT ![Registry[next]] = @ + 1]
    /\ next' = next + 1
    /\ UNCHANGED <<project_root, pc, violations, report, exit_code, runs,
                   prev_report, output_file, written, stdout>>

\* One call of run_all_tests raises: nothing catches the exception, and the
\* interpreter ends the process with status 1.
CheckRaises ==
    /\ pc = "run_all_tests"
    /\ next <= Len(Registry)
    /\ \E files \in enumerations(Registry[next], project_root) :
          raises(Registry[next], project_root, files)
    /\ calls' = [calls EXCEPT ![Registry[next]] = @ + 1]
    /\ pc' = "crashed"
    /\ exit_code' = 1
    /\ UNCHANGED <<project_root, next, results, violations, report, runs,
                   prev_report, output_file, written, stdout>>

\* run_all_tests returns; main calls generate_report.
GenerateReport ==
    /\ pc = "run_all_tests"
    /\ next > Len(Registry)
    /\ report' = generate_report(results)
    /\ pc' = "output"
    /\ UNCHANGED <<project_root, next, results, calls, violations, exit_code,
                   runs, prev_report, output_file, written, stdout>>

\* main writes the report to output_file and prints a confirmation, or
\* prints the report when the argument was omitted.
Output ==
    /\ pc = "output"
    /\ \E file \in OutputFiles :
          /\ output_file' = file
          /\ IF file.given
             THEN /\ open_may_return(project_root, file)
                  /\ written' = write(written, file, report)
                  /\ stdout' = print(stdout, "Compliance report written to",
                                     file, NoReport)
             ELSE /\ written' = written
                  /\ stdout' = print(stdout, "report", None, report)
    /\ pc' = "exit"
    /\ UNCHANGED <<project_root, next, results, calls, violations, report,
                   exit_code, runs, prev_report>>

\* open(output_file, 'w') raises: nothing catches the exception, nothing is
\* written or printed, and the interpreter ends the process with status 1.
OutputRaises ==
    /\ pc = "output"
    /\ \E file \in OutputFiles :
          /\ output_file' = file
          /\ file.given
          /\ open_may_raise(project_root, file)
    /\ pc' = "output_failed"
    /\ exit_code' = 1
    /\ UNCHANGED <<project_root, next, results, calls, violations, report,
                   runs, prev_report, written, stdout>>

\* main counts the MUST violations and exits.
Exit ==
    /\ pc = "exit"
    /\ exit_code' = exit_status(results)
    /\ pc' = "exited"
    /\ UNCHANGED <<project_root, next, results, calls, violations, report,
                   runs, prev_report, output_file, written, stdout>>

\* The tool is invoked again on the tree, which nothing has modified.
Rerun ==
    /\ pc = "exited"
    /\ runs < MaxRuns
    /\ \A w \in written : ~w.file.inside
    /\ runs' = runs + 1
    /\ prev_report' = report
    /\ pc' = "run_all_tests"
    /\ next' = 1
    /\ results' = NoResults
    /\ calls' = [m \in Methods |-> 0]
    /\ report' = NoReport
    /\ exit_code' = -1
    /\ output_file' = None
    /\ stdout' = <<>>
    /\ UNCHANGED <<project_root, violations, written>>

Next ==
    \/ CheckReturns
    \/ CheckRaises
    \/ GenerateReport
    \/ Output
    \/ OutputRaises
    \/ Exit

Spec == Init /\ [][Next]_vars

NextRerun ==
    \/ Next
    \/ Rerun

SpecRerun == Init /\ [][NextRerun]_vars

(***************************************************************************)
(* Properties.                                                             *)
(***************************************************************************)
Returned == pc \in {"output", "exit", "exited"}

ViolationsOf(rs) ==
    UNION {{rs[k].violations[i] : i \in 1..Len(rs[k].violations)} :
               k \in DOMAIN rs}

HasMust(result) ==
    \E i \in 1..Len(result.violations) :
        result.violations[i].severity = "MUST"

\* C1: when main completes, the exit code is 0 if no result holds a MUST
\* violation and 1 otherwise, whatever SHOULD and MAY violations there are.
C1_ExitCodeIffNoMust ==
    pc = "exited" =>
        /\ exit_code \in {0, 1}
        /\ exit_code = 0 <=> \A v \in ViolationsOf(results) : v.severity # "MUST"

\* A completed run that exits 0 although SHOULD violations were found.
C1_Witness ==
    /\ pc = "exited"
    /\ exit_code = 0
    /\ \E v \in ViolationsOf(results) : v.severity = "SHOULD"

\* C2: a failed read never aborts the run: no exception leaves a check, and
\* no violation is reported on a file that could not be read.
C2_ReadFailureSkipped ==
    /\ pc # "crashed"
    /\ \A v \in ViolationsOf(results) :
           (v.file_path # NoPath /\ exists(project_root, v.file_path)) =>
               (can_read(project_root, v.file_path)
                \/ is_dir(project_root, v.file_path))

\* C3: the second run on the unmodified tree produces the report of the
\* first.
C3_SameReportTwice ==
    (runs > 1 /\ Returned) => report = prev_report

\* C4 as stated: twenty-two rules, and the score is passed / 22 * 100 to
\* the nearest tenth.
C4_TwentyTwoRules ==
    Returned =>
        LET passed == Cardinality({k \in DOMAIN results : results[k].passed})
            diff == 22 * report.score - 1000 * passed
        IN  /\ report.total_rules = 22
            /\ 2 * diff <= 22
            /\ 2 * diff >= -22

\* C4 as amended: the registry has twenty-three entries, and the score is
\* passed / 23 * 100 to the nearest tenth; 73.9 for the empty project.
C4_TwentyThreeRules ==
    Returned =>
        LET passed == Cardinality({k \in DOMAIN results : results[k].passed})
            diff == 23 * report.score - 1000 * passed
        IN  /\ Len(Registry) = 23
            /\ report.total_rules = 23
            /\ 2 * diff <= 23
            /\ 2 * diff >= -23
            /\ project_root = {} => report.score = 739

\* The empty project has been reported on.
C4_Witness ==
    /\ pc = "exited"
    /\ project_root = {}
    /\ report.passed_rules = 17

\* C5: a result has passed exactly when it holds no MUST violation, under
\* either policy; so a completed run exits 0 exactly when every rule has
\* passed, which is when the score is 100.0.
C5_PassedIffNoMust ==
    /\ \A k \in DOMAIN results : results[k].passed <=> ~HasMust(results[k])
    /\ pc = "exited" =>
          /\ exit_code = 0 <=> \A k \in DOMAIN results : results[k].passed
          /\ exit_code = 0 <=> report.score = 1000

\* A completed run in which a rule passed with a violation in its result.
C5_Witness ==
    /\ pc = "exited"
    /\ exit_code = 0
    /\ \E k \in DOMAIN results :
          results[k].passed /\ results[k].violations # <<>>

\* The files rule 05B scans, and the lines of one of them.
ScannedSources(root) ==
    UNION {rglob(root, patterns_05b[j]) : j \in 1..Len(patterns_05b)}

\* Whether a file name matches one of the patterns.
MatchesAny(name, patterns) ==
    \E j \in 1..Len(patterns) : fnmatch(name, patterns[j])

\* The readable files of the tree whose names match one of the patterns.
ReadableMatching(root, patterns) ==
    {e \in root : /\ e.kind = "file"
                  /\ e.readable
                  /\ MatchesAny(Last(e.path), patterns)}

ReadableSources(root) == {e.path : e \in ReadableMatching(root, patterns_05b)}

LinesOf(root, f) == split(read_text(root, f))

\* How many violations of a result are on line i of file f.
ReportedOn(result, f, i) ==
    Cardinality({n \in 1..Len(result.violations) :
                    /\ result.violations[n].file_path = f
                    /\ result.violations[n].line_number = i})

\* How many of the four secret patterns a line matches.
PatternsMatching(line) ==
    Cardinality({p \in 1..Len(secret_patterns) :
                    re_search_secret(secret_patterns[p], line)})

\* Every violation of 05B is a MUST 05B-001 on a line of a readable scanned
\* file.
SecretViolationsPlaced(root, result) ==
    LET sources == ReadableSources(root)
    IN  \A n \in 1..Len(result.violations) :
            LET v == result.violations[n]
            IN  /\ v.rule_id = "05B-001"
                /\ v.severity = "MUST"
                /\ v.file_path \in sources
                /\ v.line_number \in 1..Len(LinesOf(root, v.file_path))

\* C6 as stated: once 05B has been invoked there is its result, in which
\* every line of every readable scanned file has exactly one violation if it
\* matches a secret pattern, and none otherwise.
C6_OnePerMatchingLine ==
    calls["test_05b_secrets_management"] > 0 =>
        /\ "05B" \in DOMAIN results
        /\ SecretViolationsPlaced(project_root, results["05B"])
        /\ \A f \in ReadableSources(project_root) :
               LET lines == LinesOf(project_root, f)
               IN  \A i \in 1..Len(lines) :
                       ReportedOn(results["05B"], f, i) =
                           IF PatternsMatching(lines[i]) > 0 THEN 1 ELSE 0

\* C6 as amended: once 05B has been invoked there is its result, in which
\* every line of every readable scanned file has one violation for each
\* secret pattern it matches (none when it matches none), and nothing else.
C6_OnePerMatchingPattern ==
    calls["test_05b_secrets_management"] > 0 =>
        /\ "05B" \in DOMAIN results
        /\ SecretViolationsPlaced(project_root, results["05B"])
        /\ \A f \in ReadableSources(project_root) :
               LET lines == LinesOf(project_root, f)
               IN  \A i \in 1..Len(lines) :
                       ReportedOn(results["05B"], f, i) =
                           PatternsMatching(lines[i])

\* 05B has scanned a file with a line matching two patterns, after a file
\* with a line matching one and a line matching none.
C6_Witness ==
    /\ "05B" \in DOMAIN results
    /\ \E f, g \in ReadableSources(project_root) :
          /\ \E i \in 1..Len(LinesOf(project_root, f)) :
                 /\ PatternsMatching(LinesOf(project_root, f)[i]) = 2
                 /\ ReportedOn(results["05B"], f, i) = 2
          /\ \E i, j \in 1..Len(LinesOf(project_root, g)) :
                 /\ i < j
                 /\ PatternsMatching(LinesOf(project_root, g)[i]) = 0
                 /\ PatternsMatching(LinesOf(project_root, g)[j]) = 1
                 /\ ReportedOn(results["05B"], g, j) = 1

\* What C7 says of a result of 02A: decided by the first existing candidate.
FirstDockerfileDecides(root, result) ==
    LET present == {i \in 1..Len(dockerfile_paths) :
                       exists(root, dockerfile_paths[i])}
        ids == {result.violations[n].rule_id :
                   n \in 1..Len(result.violations)}
    IN  IF present = {}
        THEN /\ Len(result.violations) = 1
             /\ result.violations[1].rule_id = "02A-001"
             /\ result.violations[1].severity = "MUST"
             /\ ~result.passed
        ELSE LET first == dockerfile_paths[
                              CHOOSE i \in present :
                                  \A j \in present : i <= j]
             IN  /\ can_read(root, first)
                 /\ Len(result.violations) = Cardinality(ids)
                 /\ ids \subseteq {"02A-002", "02A-003"}
                 /\ "02A-002" \in ids <=>
                        ~Contains(read_text(root, first), k_USER)
                 /\ "02A-003" \in ids <=>
                        ~Contains(read_text(root, first), k_HEALTHCHECK)
                 /\ \A n \in 1..Len(result.violations) :
                        LET v == result.violations[n]
                        IN  /\ v.file_path = first
                            /\ v.severity = IF v.rule_id = "02A-002"
                                            THEN "MUST" ELSE "SHOULD"
                 /\ result.passed <=> "02A-002" \notin ids

\* C7: once 02A has been invoked there is its result, and the first
\* existing candidate alone decides it.
C7_FirstDockerfileDecides ==
    calls["test_02a_container_design"] > 0 =>
        /\ "02A" \in DOMAIN results
        /\ FirstDockerfileDecides(project_root, results["02A"])

\* C7 where 02A returns: the first existing candidate alone decides the
\* result.
C7_WhenReturned ==
    "02A" \in DOMAIN results =>
        FirstDockerfileDecides(project_root, results["02A"])

\* 02A has returned on a tree with two candidates of different content.
C7_Witness ==
    /\ "02A" \in DOMAIN results
    /\ \E i, j \in 1..Len(dockerfile_paths) :
          /\ i < j
          /\ can_read(project_root, dockerfile_paths[i])
          /\ can_read(project_root, dockerfile_paths[j])
          /\ Contains(read_text(project_root, dockerfile_paths[i]), k_USER)
          /\ ~Contains(read_text(project_root, dockerfile_paths[j]), k_USER)

\* The workflow files of rule 09A.
WorkflowFiles(root) ==
    glob(root, gh_workflows, g_yml) \cup glob(root, gh_workflows, g_yaml)

\* The required stages a workflow file does not name.
StagesMissing(root, f) ==
    {stage \in {k_test, k_build, k_security} :
        ~Contains(Lower(read_text(root, f)), stage)}

\* What C8 says of a result of 09A on a tree with .github/workflows.
WorkflowStagesReported(root, result) ==
    /\ ~HasMust(result)
    /\ result.passed
    /\ \A n \in 1..Len(result.violations) :
           LET v == result.violations[n]
           IN  /\ v.rule_id = "09A-002"
               /\ v.severity = "SHOULD"
               /\ v.file_path \in WorkflowFiles(root)
    /\ \A f \in WorkflowFiles(root) :
           /\ can_read(root, f)
           /\ ReportedOn(result, f, NoLine) =
                  IF StagesMissing(root, f) # {} THEN 1 ELSE 0
           /\ \A n \in 1..Len(result.violations) :
                  result.violations[n].file_path = f =>
                      \A stage \in {k_test, k_build, k_security} :
                          Contains(result.violations[n].description.formatted,
                                   stage)
                              <=> stage \in StagesMissing(root, f)

\* C8: on a tree with .github/workflows, once 09A has been invoked there is
\* its result, with no MUST violation, passed, and one SHOULD violation per
\* workflow file that misses a stage, naming the stages it misses.
C8_WorkflowStagesReported ==
    (/\ exists(project_root, gh_workflows)
     /\ calls["test_09a_cicd_pipelines"] > 0) =>
        /\ "09A" \in DOMAIN results
        /\ WorkflowStagesReported(project_root, results["09A"])

\* C8 where 09A returns.
C8_WhenReturned ==
    (/\ exists(project_root, gh_workflows)
     /\ "09A" \in DOMAIN results) =>
        WorkflowStagesReported(project_root, results["09A"])

\* 09A has returned on a tree with a complete workflow and an incomplete
\* one.
C8_Witness ==
    /\ "09A" \in DOMAIN results
    /\ \E f, g \in WorkflowFiles(project_root) :
          /\ StagesMissing(project_root, f) = {}
          /\ StagesMissing(project_root, g) # {}

\* C9: on the empty project each of 01A, 01B, 02A, 06A, 07A and 09A holds a
\* MUST violation and has not passed, and the run ends with exit code 1.
C9_EmptyProject ==
    project_root = {} =>
        /\ \A k \in {"01A", "01B", "02A", "06A", "07A", "09A"} :
               /\ k \in DOMAIN results =>
                      HasMust(results[k]) /\ ~results[k].passed
               /\ Returned => k \in DOMAIN results
        /\ pc # "crashed"
        /\ pc = "exited" => exit_code = 1

\* The run on the empty project has ended.
C9_Witness ==
    /\ project_root = {}
    /\ pc = "exited"
    /\ Cardinality({k \in DOMAIN results : HasMust(results[k])}) = 6

\* The rule identifiers of the registry.
RuleIds == {sorted_rule_ids[i] : i \in 1..Len(sorted_rule_ids)}

\* The method that reports on a rule identifier.
MethodOf(k) ==
    CHOOSE m \in Methods : \A files \in enumerations(m, {}) :
        k \in DOMAIN invoke(m, {}, files)

\* What C10 says of the mapping: every check invoked once, one entry per
\* rule under its own identifier, each entry a result its check returns on
\* the tree alone.
EveryCheckOnce ==
    /\ \A m \in Methods : calls[m] = 1
    /\ DOMAIN results = RuleIds
    /\ Cardinality(DOMAIN results) = Len(Registry)
    /\ \A k \in DOMAIN results :
           /\ results[k].rule_id = k
           /\ \E files \in enumerations(MethodOf(k), project_root) :
                  results[k] = invoke(MethodOf(k), project_root, files)[k]

\* C10: when run_all_tests has ended, every registered check has been
\* invoked exactly once and the mapping has one entry per rule.
C10_EveryCheckOnce ==
    pc # "run_all_tests" => EveryCheckOnce

\* C10 where run_all_tests returns.
C10_WhenReturned ==
    Returned => EveryCheckOnce

\* The readable files among those matching one of the patterns that hold an
\* authentication keyword, in any case.
AuthEvidence(root, patterns) ==
    {e.path : e \in {x \in ReadableMatching(root, patterns) :
                        LET content == Lower(x.content)
                        IN  \E auth_pattern \in auth_patterns :
                                Contains(content, auth_pattern)}}

\* What C11 says of a result of 03A, for the patterns the scan covers: no
\* violation when a readable matching file holds a keyword, otherwise the
\* single SHOULD violation 03A-001; passed either way.
AuthenticationReported(root, patterns, result) ==
    /\ result.passed
    /\ IF AuthEvidence(root, patterns) # {}
       THEN result.violations = <<>>
       ELSE /\ Len(result.violations) = 1
            /\ result.violations[1].rule_id = "03A-001"
            /\ result.violations[1].severity = "SHOULD"

\* C11 as stated: once 03A has been invoked there is its result, decided by
\* the files matching *.yaml, *.yml, *.json, *.py, *.js, *.ts or *.env*.
C11_AuthScanCoversSources ==
    calls["test_03a_authentication"] > 0 =>
        /\ "03A" \in DOMAIN results
        /\ AuthenticationReported(project_root,
               <<g_yaml, g_yml, g_json, g_py, g_js, g_ts, g_env>>,
               results["03A"])

\* C11 as amended: once 03A has been invoked there is its result, decided by
\* the files matching *.yaml, *.yml, *.json or *.env* alone.
C11_AuthScanCoversConfigs ==
    calls["test_03a_authentication"] > 0 =>
        /\ "03A" \in DOMAIN results
        /\ AuthenticationReported(project_root,
               <<g_yaml, g_yml, g_json, g_env>>, results["03A"])

\* 03A has reported its violation on a tree whose only keyword is in a
\* source file.
C11_Witness ==
    /\ "03A" \in DOMAIN results
    /\ results["03A"].violations # <<>>
    /\ AuthEvidence(project_root, <<g_py, g_js, g_ts>>) # {}

\* 03A has reported nothing on a tree whose keyword, in upper case, is in a
\* file matching *.env*.
C11_WitnessFound ==
    /\ "03A" \in DOMAIN results
    /\ results["03A"].violations = <<>>
    /\ AuthEvidence(project_root, <<g_env>>) # {}

\* The paths of the project the run has created or overwritten.
ModifiedPaths == {w.file.path : w \in {x \in written : x.file.inside}}

\* Whether a path exists once the run's writes are taken in.
exists_after(path) ==
    exists(project_root, path) \/ path \in ModifiedPaths

\* Every path of the project exists as it did when the run began and holds
\* what it held.
TreeUnmodified ==
    \A path \in Nodes(project_root) \cup ModifiedPaths :
        /\ exists_after(path) = exists(project_root, path)
        /\ path \notin ModifiedPaths

\* Nothing is written but the report, at output_file, once.
OnlyReportWritten ==
    /\ Cardinality(written) <= 1
    /\ \A w \in written :
           /\ output_file.given
           /\ w.file = output_file
           /\ w.text = report
    /\ pc \in {"run_all_tests", "output", "crashed", "output_failed"} =>
           written = {}
    /\ (pc \in {"exit", "exited"} /\ output_file.given) => written # {}

\* C12 as stated: whatever output_file is, the project tree is at every
\* point of the run as it was before it, and the only file written is the
\* report at output_file.
C12_TreeNeverModified ==
    /\ TreeUnmodified
    /\ OnlyReportWritten

\* C12 as amended: the only file written is the report at output_file; the
\* project tree is as it was before the run when output_file is omitted or
\* leads outside the project, and otherwise differs from it at the path of
\* output_file alone.
C12_OnlyOutputFileModified ==
    /\ OnlyReportWritten
    /\ (~output_file.given \/ ~output_file.inside) => TreeUnmodified
    /\ ModifiedPaths \subseteq {output_file.path}

\* A run has ended that wrote its report over the Dockerfile it had scanned.
C12_Witness ==
    /\ pc = "exited"
    /\ output_file = Inside(<<s_Dockerfile>>)
    /\ can_read(project_root, <<s_Dockerfile>>)
    /\ ModifiedPaths = {<<s_Dockerfile>>}

\* A run has ended that wrote its report outside the project.
C12_WitnessOutside ==
    /\ pc = "exited"
    /\ output_file = Outside(<<s_report_md>>)
    /\ project_root # {}
    /\ written # {}
    /\ TreeUnmodified

\* The paths a recursive scan of the patterns takes in, in whatever order.
Scanned(root, patterns) ==
    UNION {rglob(root, patterns[j]) : j \in 1..Len(patterns)}

\* The readable files scanned by 01B that hold a health-check path.
HealthEvidence(root) ==
    {e.path : e \in {x \in ReadableMatching(root, patterns_01b) :
                        \E hp \in health_patterns : Contains(x.content, hp)}}

\* The readable files scanned by 06A that hold a versioned path.
VersionEvidence(root) ==
    {e.path : e \in {x \in ReadableMatching(root, patterns_06a) :
                        re_search_versioned(x.content)}}

\* Existence semantics: no violation when there is evidence, otherwise the
\* rule's single MUST violation.
ExistenceReported(result, evidence, id) ==
    IF evidence # {}
    THEN result.violations = <<>> /\ result.passed
    ELSE /\ Len(result.violations) = 1
         /\ result.violations[1].rule_id = id
         /\ result.violations[1].severity = "MUST"
         /\ ~result.passed

\* C13: once 01B (06A) has been invoked there is its result, which holds no
\* violation if and only if some readable scanned file holds a health-check
\* path (a versioned path) and exactly one MUST violation otherwise,
\* whatever the order of enumeration and whatever unreadable files there are.
C13_ExistenceSemantics ==
    /\ calls["test_01b_runtime_operations"] > 0 =>
           /\ "01B" \in DOMAIN results
           /\ ExistenceReported(results["01B"], HealthEvidence(project_root),
                                "01B-001")
    /\ calls["test_06a_api_design"] > 0 =>
           /\ "06A" \in DOMAIN results
           /\ ExistenceReported(results["06A"],
                                VersionEvidence(project_root), "06A-001")

\* 01B and 06A have both found their evidence in a *.ts file, enumerated
\* after a *.js file that cannot be read.
C13_Witness ==
    /\ "01B" \in DOMAIN results /\ results["01B"].violations = <<>>
    /\ "06A" \in DOMAIN results /\ results["06A"].violations = <<>>
    /\ \E u \in rglob(project_root, g_js) : ~can_read(project_root, u)
    /\ HealthEvidence(project_root) # {}
    /\ HealthEvidence(project_root) \subseteq rglob(project_root, g_ts)
    /\ VersionEvidence(project_root) # {}
    /\ VersionEvidence(project_root) \subseteq rglob(project_root, g_ts)

\* 01B and 06A have both reported their violation on a tree that holds
\* files they scan.
C13_WitnessNone ==
    /\ "01B" \in DOMAIN results /\ Len(results["01B"].violations) = 1
    /\ "06A" \in DOMAIN results /\ Len(results["06A"].violations) = 1
    /\ Scanned(project_root, patterns_01b) # {}
    /\ Scanned(project_root, patterns_06a) # {}

====
